---- MODULE Spec2Model ----
(***************************************************************************)
(* Model of S3UploadEngine (ccx_messaging/engines/s3_upload_engine.py):    *)
(* the archive path pattern, the layered component lookup, the target path *)
(* template and the steps of process(broker, local_path).                  *)
(*                                                                         *)
(* Strings of the program are sequences of one-character strings, so that  *)
(* matching, slicing and substitution are computed character by character. *)
(* Keys of mappings (broker, groupdict) are TLA+ strings; KeyChars gives   *)
(* their spelling where a template names them.                             *)
(***************************************************************************)
EXTENDS Integers, Sequences, FiniteSets, TLC

VARIABLES
    dest_bucket,            \* self.dest_bucket
    archives_path_prefix,   \* self.archives_path_prefix
    archive_name_template,  \* the pattern held by self.archive_name_template
    pc,                     \* position inside process
    broker,                 \* the broker of the current invocation
    broker0,                \* history: the broker as it was handed to process
    local_path,             \* argument local_path
    s3_path,                \* local s3_path
    match_,                 \* local match_
    target_path,            \* local target_path
    report,                 \* local report
    events,                 \* notifications fired by this invocation, in order
    uploads,                \* upload_file calls made by this invocation, in order
    result,                 \* how the invocation ended
    sw_status,              \* StatsWatcher: "absent", "serving" or "failed"
    sw_port,                \* the prometheus_port the StatsWatcher was given
    sw_error,               \* what the construction of the StatsWatcher raised
    recv_total,             \* counter _recv_total
    downloaded_total,       \* counter _downloaded_total
    processed_total,        \* counter _processed_total
    sw_times,               \* the recorded timestamps _start_time, _downloaded_time
    sw_gauges,              \* the elapsed-time gauges, None while never set
    hook_calls              \* history: the calls made of each hook

\* The state of the StatsWatcher.
watcher == <<sw_status, sw_port, sw_error, recv_total, downloaded_total, processed_total,
             sw_times, sw_gauges, hook_calls>>

vars == <<dest_bucket, archives_path_prefix, archive_name_template, pc, broker,
          broker0, local_path, s3_path, match_, target_path, report, events,
          uploads, result, watcher>>

-----------------------------------------------------------------------------
(* Characters and values *)

Digits == {"0","1","2","3","4","5","6","7","8","9"}

Lower == {"a","b","c","d","e","f","g","h","i","j","k","l","m","n","o","p","q","r","s","t","u","v","w","x","y","z"}

Upper == {"A","B","C","D","E","F","G","H","I","J","K","L","M","N","O","P","Q","R","S","T","U","V","W","X","Y","Z"}

\* Python's None: a value no string of characters equals.
None == <<"<None>">>

EmptyMap == [k \in {} |-> None]

MapDel(m, key) == [k \in (DOMAIN m) \ {key} |-> m[k]]

\* The number of consecutive characters of s, from position i on, that are in cls.
RunLen(s, i, cls) ==
    CHOOSE n \in 0..(Len(s) + 1) :
        /\ (n = 0 \/ i + n - 1 <= Len(s))
        /\ \A j \in i..(i + n - 1) : s[j] \in cls
        /\ (i + n > Len(s) \/ s[i + n] \notin cls)

-----------------------------------------------------------------------------
(* S3_ARCHIVE_PATTERN *)

\* [0-9]
OrgIdClass == Digits

\* [0-9,a-z,-] : the commas inside the brackets are members of the class
ClusterIdClass == Digits \cup Lower \cup {",", "-"}

\* [a-z,A-Z,0-9]
IdClass == Lower \cup Upper \cup Digits \cup {","}

ClusterIdLen == 36
YearLen == 4
MonthLen == 2
DayLen == 2
TimeLen == 6

TimestampLen == YearLen + MonthLen + DayLen + TimeLen

NoMatch == [ok |-> FALSE, groups |-> EmptyMap]

\* The pattern applied at the start of s, with the cluster_id class and the
\* widths of the cluster_id and year groups as given.  [0-9]+ is greedy, and a
\* shorter org_id would need a digit to be "/", so the longest run decides.
MatchWith(s, clusterClass, clusterLen, yearLen) ==
    LET n1   == RunLen(s, 1, OrgIdClass)
        sl1  == n1 + 1
        c0   == sl1 + 1
        sl2  == c0 + clusterLen
        y0   == sl2 + 1
        m0   == y0 + yearLen
        d0   == m0 + MonthLen
        t0   == d0 + DayLen
        dash == t0 + TimeLen
        idn  == RunLen(s, dash + 1, IdClass)
    IN  IF /\ n1 >= 1
           /\ Len(s) >= dash
           /\ s[sl1] = "/"
           /\ \A j \in c0..(sl2 - 1) : s[j] \in clusterClass
           /\ s[sl2] = "/"
           /\ \A j \in y0..(dash - 1) : s[j] \in Digits
           /\ s[dash] = "-"
        THEN [ok |-> TRUE,
              groups |-> [org_id     |-> SubSeq(s, 1, n1),
                          cluster_id |-> SubSeq(s, c0, sl2 - 1),
                          archive    |-> SubSeq(s, y0, dash + idn),
                          timestamp  |-> SubSeq(s, y0, dash - 1),
                          year       |-> SubSeq(s, y0, m0 - 1),
                          month      |-> SubSeq(s, m0, d0 - 1),
                          day        |-> SubSeq(s, d0, t0 - 1),
                          time       |-> SubSeq(s, t0, dash - 1),
                          id         |-> SubSeq(s, dash + 1, dash + idn)]]
        ELSE NoMatch

\* The pattern with a year group only two digits wide.
S3ArchivePatternMatch_ShortYear(s) == MatchWith(s, ClusterIdClass, ClusterIdLen, MonthLen)

\* S3_ARCHIVE_PATTERN.match(s): anchored at the start of s only.
S3ArchivePatternMatch(s) == MatchWith(s, ClusterIdClass, ClusterIdLen, YearLen)

-----------------------------------------------------------------------------
(* ChainMap: a sequence of mappings, looked up first to last *)

ChainHas(maps, key) == \E i \in 1..Len(maps) : key \in DOMAIN maps[i]

\* ChainMap.get(key): the first mapping that has the key answers; None otherwise.
ChainGet(maps, key) ==
    IF ChainHas(maps, key)
    THEN maps[CHOOSE i \in 1..Len(maps) :
                 /\ key \in DOMAIN maps[i]
                 /\ \A j \in 1..(i - 1) : key \notin DOMAIN maps[j]][key]
    ELSE None

\* The chain with the groups of the match ahead of the broker.
Components_GroupsFirst(b, groups) == <<groups, b>>

\* components = ChainMap(broker, match_.groupdict()): the broker is the first
\* mapping of the chain, the groups of the match the second.
Components(b, groups) == <<b, groups>>

-----------------------------------------------------------------------------
(* SlicedTemplate: $name, ${name}, each optionally followed by [start:stop] *)

\* The spelling of the keys a template can name.
KeyChars ==
    [s3_path    |-> <<"s","3","_","p","a","t","h">>,
     cluster_id |-> <<"c","l","u","s","t","e","r","_","i","d">>,
     org_id     |-> <<"o","r","g","_","i","d">>,
     archive    |-> <<"a","r","c","h","i","v","e">>,
     timestamp  |-> <<"t","i","m","e","s","t","a","m","p">>,
     year       |-> <<"y","e","a","r">>,
     month      |-> <<"m","o","n","t","h">>,
     day        |-> <<"d","a","y">>,
     time       |-> <<"t","i","m","e">>,
     id         |-> <<"i","d">>]

\* The key a name spells; a name that spells no key is in no mapping.
KeyOf(name) ==
    IF \E k \in DOMAIN KeyChars : KeyChars[k] = name
    THEN CHOOSE k \in DOMAIN KeyChars : KeyChars[k] = name
    ELSE "<unknown>"

IdStart == Lower \cup Upper \cup {"_"}

IdChars == IdStart \cup Digits

DigitVal(c) ==
    CHOOSE d \in 0..9 : <<"0","1","2","3","4","5","6","7","8","9">>[d + 1] = c

\* The number written by the n digits of s that start at position i.
RECURSIVE ParseNat(_, _, _)
ParseNat(s, i, n) ==
    IF n = 0 THEN 0 ELSE 10 * ParseNat(s, i, n - 1) + DigitVal(s[i + n - 1])

At(s, i) == IF i >= 1 /\ i <= Len(s) THEN s[i] ELSE ""

\* One bound of a slice at position i of s: an optional "-" and digits.
\* has: a number is written; val: the number; len: the characters it takes;
\* ok: no lone "-".
SliceBound(s, i) ==
    LET neg == IF At(s, i) = "-" THEN 1 ELSE 0
        nd  == RunLen(s, i + neg, Digits)
        v   == ParseNat(s, i + neg, nd)
    IN  [ok  |-> ~(neg = 1 /\ nd = 0),
         has |-> nd > 0,
         val |-> IF neg = 1 THEN 0 - v ELSE v,
         len |-> neg + nd]

\* The slice suffix "[start:stop]" at position i of s, when one is written there.
SliceAt(s, i) ==
    LET a     == SliceBound(s, i + 1)
        colon == i + 1 + a.len
        b     == SliceBound(s, colon + 1)
        close == colon + 1 + b.len
    IN  IF At(s, i) = "[" /\ a.ok /\ At(s, colon) = ":" /\ b.ok /\ At(s, close) = "]"
        THEN [ok |-> TRUE, hasStart |-> a.has, start |-> a.val,
              hasStop |-> b.has, stop |-> b.val, len |-> close - i + 1]
        ELSE [ok |-> FALSE, hasStart |-> FALSE, start |-> 0,
              hasStop |-> FALSE, stop |-> 0, len |-> 0]

\* A bound of v[start:stop] brought into 0..Len(v), negative counting from the end.
ClampIndex(n, i) ==
    IF i < 0 THEN (IF n + i < 0 THEN 0 ELSE n + i)
    ELSE IF i > n THEN n ELSE i

\* v[start:stop] with the half-open range of sequence slicing.
PySlice(v, sl) ==
    LET lo == IF sl.hasStart THEN ClampIndex(Len(v), sl.start) ELSE 0
        hi == IF sl.hasStop THEN ClampIndex(Len(v), sl.stop) ELSE Len(v)
    IN  IF sl.ok THEN SubSeq(v, lo + 1, hi) ELSE v

\* The placeholder that starts at the "$" at position i of tpl.
\* kind: "escaped" ($$), "named" ($name or ${name}) or "invalid"; len: the
\* characters of the placeholder itself, without a slice suffix.
PlaceholderAt(tpl, i) ==
    LET braced == At(tpl, i + 1) = "{"
        n0     == i + (IF braced THEN 2 ELSE 1)
        nlen   == IF At(tpl, n0) \in IdStart THEN RunLen(tpl, n0, IdChars) ELSE 0
        named  == nlen > 0 /\ (braced => At(tpl, n0 + nlen) = "}")
    IN  IF At(tpl, i + 1) = "$"
        THEN [kind |-> "escaped", name |-> <<>>, len |-> 2]
        ELSE IF named
        THEN [kind |-> "named", name |-> SubSeq(tpl, n0, n0 + nlen - 1),
              len |-> (IF braced THEN nlen + 3 ELSE nlen + 1)]
        ELSE [kind |-> "invalid", name |-> <<>>, len |-> 1]

\* safe_substitute from position i of tpl on: a placeholder whose name is a key
\* of the mapping becomes its (sliced) value, any other text stays as written.
RECURSIVE SafeSubstituteFrom(_, _, _)
SafeSubstituteFrom(tpl, i, mapping) ==
    IF i > Len(tpl) THEN <<>>
    ELSE IF tpl[i] # "$" THEN <<tpl[i]>> \o SafeSubstituteFrom(tpl, i + 1, mapping)
    ELSE LET ph == PlaceholderAt(tpl, i)
             sl == SliceAt(tpl, i + ph.len)
             k  == KeyOf(ph.name)
         IN  IF ph.kind = "escaped"
             THEN <<"$">> \o SafeSubstituteFrom(tpl, i + 2, mapping)
             ELSE IF ph.kind = "named" /\ ChainHas(mapping, k)
             THEN PySlice(ChainGet(mapping, k), sl)
                      \o SafeSubstituteFrom(tpl, i + ph.len + sl.len, mapping)
             ELSE <<"$">> \o SafeSubstituteFrom(tpl, i + 1, mapping)

SafeSubstitute(tpl, mapping) == SafeSubstituteFrom(tpl, 1, mapping)

-----------------------------------------------------------------------------
(* compute_target_path and create_metadata *)

\* compute_target_path with the prefix glued on without the "/".
compute_target_path_NoDelimiter(components) ==
    LET path == SafeSubstitute(archive_name_template, components)
    IN  IF archives_path_prefix # None /\ archives_path_prefix # <<>>
        THEN archives_path_prefix \o path
        ELSE path

\* compute_target_path(components): the prefix is prepended when it is truthy.
compute_target_path(components) ==
    LET path == SafeSubstitute(archive_name_template, components)
    IN  IF archives_path_prefix # None /\ archives_path_prefix # <<>>
        THEN archives_path_prefix \o <<"/">> \o path
        ELSE path

\* create_metadata reading the match alone, past the broker.
create_metadata_FromMatch(components) ==
    [cluster_id            |-> ChainGet(<<components[2]>>, "cluster_id"),
     external_organization |-> ChainGet(<<components[2]>>, "org_id")]

\* create_metadata(components)
create_metadata(components) ==
    [cluster_id            |-> ChainGet(components, "cluster_id"),
     external_organization |-> ChainGet(components, "org_id")]

-----------------------------------------------------------------------------
(* Inputs: configurations of the engine, brokers handed to process *)

PathOf(org, cl, ts, id) == org \o <<"/">> \o cl \o <<"/">> \o ts \o <<"-">> \o id

OrgA == <<"1","2","3">>
OrgB == <<"7">>

ClusterA == <<"a","b","c","d","e","f","a","b","-","c","d","e","f","-","a","b","c","d","-","e","f","a","b","-","c","d","e","f","a","b","c","d","e","f","a","b">>
ClusterB == <<"1","1","1","1","1","1","1","1","-","2","2","2","2","-","3","3","3","3","-","4","4","4","4","-","5","5","5","5","5","5","5","5","5","5","5","5">>

StampA == <<"2","0","2","4","0","1","0","1","1","2","0","0","0","0">>
StampB == <<"2","0","2","3","1","2","3","1","2","3","5","9","5","9">>

IdA == <<"x","y","z","1","2","3">>

\* 123/abcdefabcd-efab-cdef-abcd-efabcdefabcd/20240101120000-xyz123 : a path
\* whose second segment has 38 characters.
LongClusterPath ==
    PathOf(OrgA, <<"a","b","c","d","e","f","a","b","c","d","-","e","f","a","b","-","c","d","e","f","-","a","b","c","d","-","e","f","a","b","c","d","e","f","a","b","c","d">>, StampA, IdA)

\* Paths that follow <org_id>/<cluster_id>/<year><month><day><time>-<id>.
ConformingPaths ==
    {PathOf(IF c = ClusterA THEN OrgA ELSE OrgB, c, ts, i) :
        c \in {ClusterA, ClusterB}, ts \in {StampA, StampB}, i \in {IdA, <<>>}}

\* ClusterA with one character replaced, at every position.
OtherChars == {",", "A", "_", "."}

AlteredPaths ==
    {PathOf(OrgA, [ClusterA EXCEPT ![k] = ch], StampA, IdA) :
        k \in 1..Len(ClusterA), ch \in OtherChars}

\* Paths that break the convention elsewhere, and a conforming one with a tail.
OddPaths ==
    {<<"n","o","t","-","a","-","v","a","l","i","d","-","p","a","t","h">>,
     <<>>,
     LongClusterPath,
     PathOf(<<>>, ClusterA, StampA, IdA),
     PathOf(OrgA, SubSeq(ClusterA, 1, Len(ClusterA) - 1), StampA, IdA),
     PathOf(OrgA, ClusterA \o <<"0">>, StampA, IdA),
     PathOf(OrgA, ClusterA, SubSeq(StampA, 1, Len(StampA) - 1), IdA),
     OrgA \o <<"/">> \o ClusterA \o <<"/">> \o StampA,
     <<"x","/">> \o PathOf(OrgA, ClusterA, StampA, IdA),
     PathOf(OrgA, ClusterA, StampA, IdA) \o <<".","t","a","r","/","x">>}

\* A broker from a record of optional values: a key whose value is None is absent.
MkBroker(r) == [k \in {x \in DOMAIN r : r[x] # None} |-> r[k]]

Brokers ==
    {MkBroker(r) : r \in
        [s3_path    : ConformingPaths \cup OddPaths \cup {None},
         cluster_id : {None, ClusterA, ClusterB},
         year       : {None, <<"1","9","9","9">>},
         org_id     : {None, <<"4","2">>}]}
    \cup
    {MkBroker(r) : r \in
        [s3_path : AlteredPaths, cluster_id : {ClusterA}]}

LocalPaths == {<<"/","t","m","p","/","a","r","c","h","i","v","e",".","t","a","r",".","g","z">>}

Buckets == {<<"b","u","c","k","e","t">>}

Prefixes == {None, <<>>, <<"a","r","c","h","i","v","e","s">>}

\* The default of archive_name_pattern.
DefaultTemplate == <<"$","c","l","u","s","t","e","r","_","i","d","[",":","2","]","/","$","c","l","u","s","t","e","r","_","i","d","/","$","y","e","a","r","$","m","o","n","t","h","/","$","d","a","y","/","$","t","i","m","e",".","t","a","r",".","g","z">>

\* A configured archive_name_pattern with a braced and sliced placeholder, a
\* placeholder no source holds, and an escaped "$":
\* x/${org_id}[-2:]/$nokey[1:3]/$archive$$
SlicingTemplate == <<"x","/","$","{","o","r","g","_","i","d","}","[","-","2",":","]","/","$","n","o","k","e","y","[","1",":","3","]","/","$","a","r","c","h","i","v","e","$","$">>

Templates == {DefaultTemplate, SlicingTemplate}

\* What upload_file can raise: errors of the storage layer.
UploadErrors ==
    {[type |-> "ClientError", arg |-> "AccessDenied"],
     [type |-> "EndpointConnectionError", arg |-> "unreachable"]}

NoError == [type |-> "none", arg |-> ""]

PatternError == [type |-> "CCXMessagingError", arg |-> "Archive pattern name incorrect"]

KeyError(key) == [type |-> "KeyError", arg |-> key]

NoReport ==
    [path |-> None, original_path |-> None,
     metadata |-> [cluster_id |-> None, external_organization |-> None]]

Running == [kind |-> "running", value |-> None, error |-> NoError]

Returned(v) == [kind |-> "returned", value |-> v, error |-> NoError]

Raised(e) == [kind |-> "raised", value |-> None, error |-> e]

\* One notification: the hook, the broker as the observers see it, and the
\* argument of the hook (local_path, the exception or the report).
Event(hook, b, path, err, rep) ==
    [hook |-> hook, broker |-> b, local_path |-> path, error |-> err, report |-> rep]

\* json.dumps of a string or of None.
JsonValue(v) ==
    IF v = None THEN <<"n","u","l","l">> ELSE <<"\"">> \o v \o <<"\"">>

\* json.dumps(report): the keys in the order the report was built.
JsonDumps(rep) ==
    <<"{","\"","p","a","t","h","\"",":"," ">> \o JsonValue(rep.path)
    \o <<","," ","\"","o","r","i","g","i","n","a","l","_","p","a","t","h","\"",":"," ">>
    \o JsonValue(rep.original_path)
    \o <<","," ","\"","m","e","t","a","d","a","t","a","\"",":"," ","{","\"","c","l","u","s","t","e","r","_","i","d","\"",":"," ">>
    \o JsonValue(rep.metadata.cluster_id)
    \o <<","," ","\"","e","x","t","e","r","n","a","l","_","o","r","g","a","n","i","z","a","t","i","o","n","\"",":"," ">>
    \o JsonValue(rep.metadata.external_organization)
    \o <<"}","}">>

-----------------------------------------------------------------------------
(* The StatsWatcher: its values *)

\* A prometheus_port argument: the type of the value and its number.
Port(type, val) == [type |-> type, val |-> val]

\* The default of prometheus_port.
DefaultPort == 8000

\* The ports a process without privileges cannot bind start at 1; the
\* first it can bind, and the last port there is.
FirstUserPort == 1024

LastPort == 65535

\* _INVALID_PORTS: None, "8000", 8000.0, 80 and 70000.
InvalidPorts ==
    {Port("NoneType", 0), Port("str", DefaultPort), Port("float", DefaultPort),
     Port("int", 80), Port("int", 70000)}

\* The values StatsWatcher is constructed with: the invalid ones, the
\* default, and the ports 8001 and 9500.
Ports ==
    InvalidPorts
    \cup {Port("int", DefaultPort), Port("int", DefaultPort + 1), Port("int", 9500)}

\* Binding the metrics endpoint with the type of the port checked and its
\* range not.
PortError_TypeOnly(p) ==
    IF p.type # "int" THEN [type |-> "TypeError", arg |-> p.type] ELSE NoError

\* What binding the metrics endpoint to the port raises.
PortError(p) ==
    IF p.type # "int" THEN [type |-> "TypeError", arg |-> p.type]
    ELSE IF p.val > LastPort \/ p.val < 0 THEN [type |-> "OverflowError", arg |-> "port"]
    ELSE IF p.val < FirstUserPort THEN [type |-> "PermissionError", arg |-> "port"]
    ELSE NoError

\* An elapsed-time gauge: never set, or set to a number of ticks.
Unset == [set |-> FALSE, val |-> 0]

Gauge(val) == [set |-> TRUE, val |-> val]

\* The hooks of the StatsWatcher.
Hooks == {"on_recv", "on_download", "on_process"}

\* The most calls of one hook in a run.
MaxHookCalls == 3

\* No StatsWatcher has been constructed.
NoWatcher ==
    /\ sw_status = "absent"
    /\ sw_port = Port("NoneType", 0)
    /\ sw_error = NoError
    /\ recv_total = 0
    /\ downloaded_total = 0
    /\ processed_total = 0
    /\ sw_times = [start |-> 0, downloaded |-> 0]
    /\ sw_gauges = [download |-> Unset, process |-> Unset]
    /\ hook_calls = [h \in Hooks |-> 0]

-----------------------------------------------------------------------------
(* The engine *)

\* S3UploadEngine.__init__
Init ==
    /\ dest_bucket \in Buckets
    /\ archives_path_prefix \in Prefixes
    /\ archive_name_template \in Templates
    /\ pc = "idle"
    /\ broker = EmptyMap
    /\ broker0 = EmptyMap
    /\ local_path = None
    /\ s3_path = None
    /\ match_ = NoMatch
    /\ target_path = None
    /\ report = NoReport
    /\ events = <<>>
    /\ uploads = <<>>
    /\ result = Running
    /\ NoWatcher

config == <<dest_bucket, archives_path_prefix, archive_name_template>>

\* The host calls process(b, lp) on the broker of one message; the engine
\* handles one message at a time.
Call(b, lp) ==
    /\ pc = "idle"
    /\ pc' = "pre_extract"
    /\ broker' = b
    /\ broker0' = b
    /\ local_path' = lp
    /\ s3_path' = None
    /\ match_' = NoMatch
    /\ target_path' = None
    /\ report' = NoReport
    /\ events' = <<>>
    /\ uploads' = <<>>
    /\ result' = Running
    /\ UNCHANGED <<config, watcher>>

\* self.fire("pre_extract", broker, local_path)
FirePreExtract ==
    /\ pc = "pre_extract"
    /\ events' = Append(events, Event("pre_extract", broker, local_path, NoError, NoReport))
    /\ pc' = "read_s3_path"
    /\ UNCHANGED <<config, watcher, broker, broker0, local_path, s3_path, match_, target_path,
                   report, uploads, result>>

\* Line 102 with the missing key reported to the observers before it is raised.
ReadS3Path_Notify ==
    /\ pc = "read_s3_path"
    /\ IF "s3_path" \in DOMAIN broker
       THEN /\ s3_path' = broker["s3_path"]
            /\ pc' = "match"
            /\ UNCHANGED <<result, events>>
       ELSE /\ s3_path' = s3_path
            /\ pc' = "done"
            /\ events' = Append(events, Event("on_engine_failure", broker, None,
                                              KeyError("s3_path"), NoReport))
            /\ result' = Raised(KeyError("s3_path"))
    /\ UNCHANGED <<config, watcher, broker, broker0, local_path, match_, target_path, report,
                   uploads>>

\* s3_path = broker["s3_path"]: a KeyError when the key is absent.
ReadS3Path ==
    /\ pc = "read_s3_path"
    /\ IF "s3_path" \in DOMAIN broker
       THEN /\ s3_path' = broker["s3_path"]
            /\ pc' = "match"
            /\ result' = result
       ELSE /\ s3_path' = s3_path
            /\ pc' = "done"
            /\ result' = Raised(KeyError("s3_path"))
    /\ UNCHANGED <<config, watcher, broker, broker0, local_path, match_, target_path, report,
                   events, uploads>>

\* Lines 104-112 with the pattern left unreported: the error is raised but no
\* observer is told.
MatchArchive_NoFire ==
    /\ pc = "match"
    /\ match_' = S3ArchivePatternMatch(s3_path)
    /\ IF match_'.ok
       THEN /\ pc' = "compute"
            /\ result' = result
       ELSE /\ pc' = "done"
            /\ result' = Raised(PatternError)
    /\ UNCHANGED <<config, watcher, broker, broker0, local_path, s3_path, target_path, report,
                   events, uploads>>

\* Lines 104-112 with the consumed keys removed on the failure path too.
MatchArchive_Cleanup ==
    /\ pc = "match"
    /\ match_' = S3ArchivePatternMatch(s3_path)
    /\ IF match_'.ok
       THEN /\ pc' = "compute"
            /\ UNCHANGED <<events, result, broker>>
       ELSE /\ events' = Append(events,
                            Event("on_engine_failure", broker, None, PatternError, NoReport))
            /\ broker' = MapDel(MapDel(broker, "cluster_id"), "s3_path")
            /\ pc' = "done"
            /\ result' = Raised(PatternError)
    /\ UNCHANGED <<config, watcher, broker0, local_path, s3_path, target_path, report, uploads>>

\* w.watch_broker(broker) for every watcher (a hook that leaves the broker as it
\* is), then match_ = S3_ARCHIVE_PATTERN.match(s3_path); without a match the one
\* exception object is handed to on_engine_failure and raised.
MatchArchive ==
    /\ pc = "match"
    /\ match_' = S3ArchivePatternMatch(s3_path)
    /\ IF match_'.ok
       THEN /\ pc' = "compute"
            /\ UNCHANGED <<events, result>>
       ELSE /\ events' = Append(events,
                            Event("on_engine_failure", broker, None, PatternError, NoReport))
            /\ pc' = "done"
            /\ result' = Raised(PatternError)
    /\ UNCHANGED <<config, watcher, broker, broker0, local_path, s3_path, target_path, report,
                   uploads>>

\* The computation of the target path writing the Archive Components the
\* broker lacks back into the broker.
ComputeTargetPath_WriteBack ==
    /\ pc = "compute"
    /\ target_path' = compute_target_path(Components(broker, match_.groups))
    /\ broker' = [k \in (DOMAIN broker) \cup (DOMAIN match_.groups) |->
                     IF k \in DOMAIN broker THEN broker[k] ELSE match_.groups[k]]
    /\ pc' = "upload"
    /\ UNCHANGED <<config, watcher, broker0, local_path, s3_path, match_, report,
                   events, uploads, result>>

\* compute_target_path as a strict substitution would have it: a placeholder
\* that no source holds raises a KeyError.
ComputeTargetPath_Strict ==
    /\ pc = "compute"
    /\ IF archive_name_template = SlicingTemplate
       THEN /\ pc' = "done"
            /\ result' = Raised(KeyError("nokey"))
            /\ UNCHANGED target_path
       ELSE /\ target_path' = compute_target_path(Components(broker, match_.groups))
            /\ pc' = "upload"
            /\ UNCHANGED result
    /\ UNCHANGED <<config, watcher, broker, broker0, local_path, s3_path, match_, report,
                   events, uploads>>

\* components = ChainMap(broker, match_.groupdict())
\* target_path = self.compute_target_path(components)
ComputeTargetPath ==
    /\ pc = "compute"
    /\ target_path' = compute_target_path(Components(broker, match_.groups))
    /\ pc' = "upload"
    /\ UNCHANGED <<config, watcher, broker, broker0, local_path, s3_path, match_, report,
                   events, uploads, result>>

\* The call of upload_file with the source path where the target path belongs.
UploadCall_SourcePath(raised) ==
    [local_path |-> local_path, bucket |-> dest_bucket, target_path |-> s3_path,
     raised |-> raised]

\* The call upload_file(local_path, self.dest_bucket, target_path) as the
\* collaborator sees it, with what it raised (NoError when it completed).
UploadCall(raised) ==
    [local_path |-> local_path, bucket |-> dest_bucket, target_path |-> target_path,
     raised |-> raised]

\* Line 117 wrapped in a handler that reports the failure before raising it again.
Upload_NotifyFailure ==
    /\ pc = "upload"
    /\ \/ /\ uploads' = Append(uploads, UploadCall(NoError))
          /\ pc' = "report"
          /\ UNCHANGED <<result, events>>
       \/ \E e \in UploadErrors :
             /\ uploads' = Append(uploads, UploadCall(e))
             /\ pc' = "done"
             /\ events' = Append(events, Event("on_engine_failure", broker, None, e, NoReport))
             /\ result' = Raised(e)
    /\ UNCHANGED <<config, watcher, broker, broker0, local_path, s3_path, match_, target_path,
                   report>>

\* self.uploader.upload_file(local_path, self.dest_bucket, target_path): the one
\* call either completes or raises, and what it raises leaves process as it is.
Upload ==
    /\ pc = "upload"
    /\ \/ /\ uploads' = Append(uploads, UploadCall(NoError))
          /\ pc' = "report"
          /\ result' = result
       \/ \E e \in UploadErrors :
             /\ uploads' = Append(uploads, UploadCall(e))
             /\ pc' = "done"
             /\ result' = Raised(e)
    /\ UNCHANGED <<config, watcher, broker, broker0, local_path, s3_path, match_, target_path,
                   report, events>>

\* on_engine_success fired after the cleanup: the observers get the broker
\* without cluster_id and s3_path.
FireSuccess_AfterCleanup ==
    /\ pc = "report"
    /\ report' = [path          |-> target_path,
                  original_path |-> s3_path,
                  metadata      |-> create_metadata(Components(broker, match_.groups))]
    /\ events' = Append(events,
                        Event("on_engine_success",
                              MapDel(MapDel(broker, "cluster_id"), "s3_path"),
                              None, NoError, report'))
    /\ pc' = "del_cluster_id"
    /\ UNCHANGED <<config, watcher, broker, broker0, local_path, s3_path, match_, target_path,
                   uploads, result>>

\* metadata = create_metadata(components); report = {...};
\* self.fire("on_engine_success", broker, report)
FireSuccess ==
    /\ pc = "report"
    /\ report' = [path          |-> target_path,
                  original_path |-> s3_path,
                  metadata      |-> create_metadata(Components(broker, match_.groups))]
    /\ events' = Append(events, Event("on_engine_success", broker, None, NoError, report'))
    /\ pc' = "del_cluster_id"
    /\ UNCHANGED <<config, watcher, broker, broker0, local_path, s3_path, match_, target_path,
                   uploads, result>>

\* del broker["cluster_id"]: a KeyError when the key is absent.
DelClusterId ==
    /\ pc = "del_cluster_id"
    /\ IF "cluster_id" \in DOMAIN broker
       THEN /\ broker' = MapDel(broker, "cluster_id")
            /\ pc' = "del_s3_path"
            /\ result' = result
       ELSE /\ broker' = broker
            /\ pc' = "done"
            /\ result' = Raised(KeyError("cluster_id"))
    /\ UNCHANGED <<config, watcher, broker0, local_path, s3_path, match_, target_path, report,
                   events, uploads>>

\* Lines 131-132 without the del.
DelS3Path_Keep ==
    /\ pc = "del_s3_path"
    /\ pc' = "done"
    /\ result' = Returned(JsonDumps(report))
    /\ UNCHANGED <<config, watcher, broker, broker0, local_path, s3_path, match_, target_path,
                   report, events, uploads>>

\* del broker["s3_path"]; return json.dumps(report)
DelS3Path ==
    /\ pc = "del_s3_path"
    /\ IF "s3_path" \in DOMAIN broker
       THEN /\ broker' = MapDel(broker, "s3_path")
            /\ result' = Returned(JsonDumps(report))
       ELSE /\ broker' = broker
            /\ result' = Raised(KeyError("s3_path"))
    /\ pc' = "done"
    /\ UNCHANGED <<config, watcher, broker0, local_path, s3_path, match_, target_path, report,
                   events, uploads>>

\* process has returned or raised: its locals are gone, the host keeps the
\* outcome and the broker, and the engine is ready for the next message.
NextMessage ==
    /\ pc = "done"
    /\ pc' = "idle"
    /\ broker' = EmptyMap
    /\ broker0' = EmptyMap
    /\ local_path' = None
    /\ s3_path' = None
    /\ match_' = NoMatch
    /\ target_path' = None
    /\ report' = NoReport
    /\ events' = <<>>
    /\ uploads' = <<>>
    /\ result' = Running
    /\ UNCHANGED <<config, watcher>>

Process ==
    \/ FirePreExtract
    \/ ReadS3Path
    \/ MatchArchive
    \/ ComputeTargetPath
    \/ Upload
    \/ FireSuccess
    \/ DelClusterId
    \/ DelS3Path

Next ==
    \/ \E b \in Brokers, lp \in LocalPaths : Call(b, lp)
    \/ Process
    \/ NextMessage

Spec == Init /\ [][Next]_vars

-----------------------------------------------------------------------------
(* The StatsWatcher *)

\* The state of the engine, which no hook of the StatsWatcher touches.
engine == <<config, pc, broker, broker0, local_path, s3_path, match_,
            target_path, report, events, uploads, result>>

\* The time of a hook call: the calls made so far, and one.
Now == hook_calls["on_recv"] + hook_calls["on_download"] + hook_calls["on_process"] + 1

Called(hook) == [hook_calls EXCEPT ![hook] = @ + 1]

\* StatsWatcher(prometheus_port): the counters start at 0 and the metrics
\* endpoint is bound to the port; a port it cannot be bound to fails the
\* construction.
StatsWatcherInit(p) ==
    /\ sw_status \in {"absent", "failed"}
    /\ sw_port' = p
    /\ sw_error' = PortError(p)
    /\ sw_status' = IF PortError(p) = NoError THEN "serving" ELSE "failed"
    /\ recv_total' = 0
    /\ downloaded_total' = 0
    /\ processed_total' = 0
    /\ sw_times' = [start |-> 0, downloaded |-> 0]
    /\ sw_gauges' = [download |-> Unset, process |-> Unset]
    /\ hook_calls' = [h \in Hooks |-> 0]
    /\ UNCHANGED engine

\* on_recv recording the time and not the message.
on_recv_NoCount ==
    /\ sw_status = "serving"
    /\ hook_calls["on_recv"] < MaxHookCalls
    /\ sw_times' = [sw_times EXCEPT !.start = Now]
    /\ hook_calls' = Called("on_recv")
    /\ UNCHANGED <<engine, sw_status, sw_port, sw_error, recv_total, downloaded_total,
                   processed_total, sw_gauges>>

\* StatsWatcher.on_recv(input_msg)
on_recv ==
    /\ sw_status = "serving"
    /\ hook_calls["on_recv"] < MaxHookCalls
    /\ recv_total' = recv_total + 1
    /\ sw_times' = [sw_times EXCEPT !.start = Now]
    /\ hook_calls' = Called("on_recv")
    /\ UNCHANGED <<engine, sw_status, sw_port, sw_error, downloaded_total,
                   processed_total, sw_gauges>>

\* on_download counting the message as received too.
on_download_AlsoReceived ==
    /\ sw_status = "serving"
    /\ hook_calls["on_download"] < MaxHookCalls
    /\ downloaded_total' = downloaded_total + 1
    /\ recv_total' = recv_total + 1
    /\ sw_times' = [sw_times EXCEPT !.downloaded = Now]
    /\ sw_gauges' = [sw_gauges EXCEPT !.download = Gauge(Now - sw_times.start)]
    /\ hook_calls' = Called("on_download")
    /\ UNCHANGED <<engine, sw_status, sw_port, sw_error, processed_total>>

\* StatsWatcher.on_download(path)
on_download ==
    /\ sw_status = "serving"
    /\ hook_calls["on_download"] < MaxHookCalls
    /\ downloaded_total' = downloaded_total + 1
    /\ sw_times' = [sw_times EXCEPT !.downloaded = Now]
    /\ sw_gauges' = [sw_gauges EXCEPT !.download = Gauge(Now - sw_times.start)]
    /\ hook_calls' = Called("on_download")
    /\ UNCHANGED <<engine, sw_status, sw_port, sw_error, recv_total,
                   processed_total>>

\* StatsWatcher.on_process(input_msg, results)
on_process ==
    /\ sw_status = "serving"
    /\ hook_calls["on_process"] < MaxHookCalls
    /\ processed_total' = processed_total + 1
    /\ sw_gauges' = [sw_gauges EXCEPT !.process = Gauge(Now - sw_times.downloaded)]
    /\ hook_calls' = Called("on_process")
    /\ UNCHANGED <<engine, sw_status, sw_port, sw_error, recv_total,
                   downloaded_total, sw_times>>

StatsNext ==
    \/ \E p \in Ports : StatsWatcherInit(p)
    \/ on_recv
    \/ on_download
    \/ on_process

\* The StatsWatcher beside an engine at rest.
StatsSpec == Init /\ [][StatsNext]_vars

-----------------------------------------------------------------------------
(* Properties of process *)

\* The number of notifications of a hook fired by the current invocation.
Count(hook) == Cardinality({i \in 1..Len(events) : events[i].hook = hook})

Outcomes == Count("on_engine_success") + Count("on_engine_failure")

\* The upload call of the current invocation has completed.
UploadCompleted == \E i \in 1..Len(uploads) : uploads[i].raised = NoError

\* The upload call of the current invocation has raised.
UploadFailed == \E i \in 1..Len(uploads) : uploads[i].raised # NoError

\* process was handed a broker whose s3_path does not match the pattern.
Mismatch ==
    /\ "s3_path" \in DOMAIN broker0
    /\ ~S3ArchivePatternMatch(broker0["s3_path"]).ok

\* C1 as stated: every finished invocation, whatever its outcome, has fired
\* exactly one of on_engine_success and on_engine_failure, and exactly one
\* pre_extract before it.
C1_ExactlyOneOutcomeAlways ==
    pc = "done" =>
        /\ Outcomes = 1
        /\ Count("pre_extract") = 1
        /\ events[1].hook = "pre_extract"

\* C1, amended: every finished invocation has fired exactly one pre_extract,
\* first, and at most one of on_engine_success and on_engine_failure:
\* on_engine_failure alone when the pattern did not match, on_engine_success
\* alone when the upload completed, and neither of them when the upload raised or
\* the broker had no s3_path.
C1_OutcomeNotifications ==
    pc = "done" =>
        /\ Count("pre_extract") = 1
        /\ events[1].hook = "pre_extract"
        /\ Mismatch =>
              Count("on_engine_failure") = 1 /\ Count("on_engine_success") = 0
        /\ UploadCompleted =>
              Count("on_engine_success") = 1 /\ Count("on_engine_failure") = 0
        /\ (UploadFailed \/ "s3_path" \notin DOMAIN broker0) => Outcomes = 0

C1_Witness ==
    /\ pc = "done"
    /\ UploadFailed
    /\ Len(events) = 1
    /\ events[1].hook = "pre_extract"

\* The keys that the broker handed to process and the groups of the match both
\* hold, with different values.
Contested ==
    {k \in (DOMAIN broker0) \cap (DOMAIN match_.groups) : broker0[k] # match_.groups[k]}

\* The text the default template stands for, given the value of each key.
DefaultRendering(val) ==
    SubSeq(val["cluster_id"], 1, 2) \o <<"/">> \o val["cluster_id"] \o <<"/">>
    \o val["year"] \o val["month"] \o <<"/">> \o val["day"] \o <<"/">> \o val["time"]
    \o <<".","t","a","r",".","g","z">>

IsSuffix(s, w) == Len(s) <= Len(w) /\ SubSeq(w, Len(w) - Len(s) + 1, Len(w)) = s

PathComputed == pc \in {"upload", "report", "del_cluster_id", "del_s3_path"}

C3_MismatchFails ==
    (pc = "done" /\ Mismatch) =>
        /\ result = Raised(PatternError)
        /\ Count("on_engine_failure") = 1
        /\ \A i \in 1..Len(events) :
              events[i].hook = "on_engine_failure" => events[i].error = result.error
        /\ Count("on_engine_success") = 0
        /\ uploads = <<>>
        /\ report = NoReport

C3_Witness ==
    /\ pc = "done"
    /\ "s3_path" \in DOMAIN broker0
    /\ broker0["s3_path"] = <<"n","o","t","-","a","-","v","a","l","i","d","-","p","a","t","h">>
    /\ result.kind = "raised"

\* C4: when process has returned a report, the broker holds neither cluster_id
\* nor s3_path.
C4_KeysRemoved ==
    result.kind = "returned" =>
        "cluster_id" \notin DOMAIN broker /\ "s3_path" \notin DOMAIN broker

C4_Witness ==
    /\ result.kind = "returned"
    /\ {"cluster_id", "s3_path"} \subseteq DOMAIN broker0
    /\ "year" \in DOMAIN broker

\* C5 as stated: for a broker with a conforming s3_path and no cluster_id, an
\* invocation whose upload call does not raise ends with the upload made,
\* on_engine_success fired and the serialized report returned.
C5_ClusterIdOptional ==
    (/\ pc = "done"
     /\ "s3_path" \in DOMAIN broker0
     /\ S3ArchivePatternMatch(broker0["s3_path"]).ok
     /\ "cluster_id" \notin DOMAIN broker0
     /\ ~UploadFailed) =>
        /\ UploadCompleted
        /\ Count("on_engine_success") = 1
        /\ result = Returned(JsonDumps(report))

\* C6: when the upload call raises, process ends at once with that same error:
\* the call was made once, neither on_engine_failure nor on_engine_success is
\* fired, no report is built and none is returned.
C6_UploadErrorPropagates ==
    UploadFailed =>
        /\ pc = "done"
        /\ Len(uploads) = 1
        /\ result = Raised(uploads[1].raised)
        /\ Count("on_engine_failure") = 0
        /\ Count("on_engine_success") = 0
        /\ report = NoReport

C6_Witness ==
    /\ UploadFailed
    /\ result.kind = "raised"
    /\ result.error \in UploadErrors
    /\ "cluster_id" \in DOMAIN broker

\* C7: when the broker has no s3_path, process ends with the KeyError of that
\* key right after pre_extract: pre_extract is the only notification, there is
\* no upload call, and the broker is as it was handed in.
C7_MissingSourcePath ==
    ("s3_path" \notin DOMAIN broker0 /\ pc \notin {"idle", "pre_extract", "read_s3_path"}) =>
        /\ pc = "done"
        /\ result = Raised(KeyError("s3_path"))
        /\ Len(events) = 1
        /\ events[1].hook = "pre_extract"
        /\ uploads = <<>>
        /\ broker = broker0

C7_Witness ==
    /\ pc = "done"
    /\ "s3_path" \notin DOMAIN broker0
    /\ "cluster_id" \in DOMAIN broker0
    /\ result.error = KeyError("s3_path")

\* C8: after a pattern mismatch the broker holds exactly the keys and values it
\* was handed in with: s3_path is still there, and so is cluster_id when the
\* broker had one.
C8_NoCleanupOnMismatch ==
    (pc = "done" /\ result.error = PatternError) =>
        /\ broker = broker0
        /\ "s3_path" \in DOMAIN broker
        /\ ("cluster_id" \in DOMAIN broker0 => "cluster_id" \in DOMAIN broker)

C8_Witness ==
    /\ pc = "done"
    /\ result.error = PatternError
    /\ {"s3_path", "cluster_id", "year"} \subseteq DOMAIN broker

\* ab/abcdefabcd-efab-cdef-abcd-efabcdefabcd/202401/01/120000.tar.gz
LongClusterTarget ==
    <<"a","b","/","a","b","c","d","e","f","a","b","c","d","-","e","f","a","b","-","c","d","e","f","-","a","b","c","d","-","e","f","a","b","c","d","e","f","a","b","c","d","/","2","0","2","4","0","1","/","0","1","/","1","2","0","0","0","0",".","t","a","r",".","g","z">>

\* 123/abcdefab-cdef-abcd-efab-cdefabcdefab/20240101120000-xyz123
ExamplePath == PathOf(OrgA, ClusterA, StampA, IdA)

\* ab/abcdefab-cdef-abcd-efab-cdefabcdefab/202401/01/120000.tar.gz
ExampleTarget ==
    <<"a","b","/","a","b","c","d","e","f","a","b","-","c","d","e","f","-","a","b","c","d","-","e","f","a","b","-","c","d","e","f","a","b","c","d","e","f","a","b","/","2","0","2","4","0","1","/","0","1","/","1","2","0","0","0","0",".","t","a","r",".","g","z">>

DefaultSetup ==
    archive_name_template = DefaultTemplate /\ archives_path_prefix \in {None, <<>>}

\* What ExamplePath gives for the keys of the default template.
ExampleValues ==
    [cluster_id |-> ClusterA, year |-> <<"2","0","2","4">>, month |-> <<"0","1">>,
     day |-> <<"0","1">>, time |-> <<"1","2","0","0","0","0">>]

\* The broker handed in holds none of the keys of the default template with a
\* value other than the one ExamplePath gives.
NothingShadowed ==
    \A k \in DOMAIN ExampleValues : k \in DOMAIN broker0 => broker0[k] = ExampleValues[k]

\* C9 as stated: with the default template and no prefix, an invocation on
\* s3_path 123/abcdefabcd-efab-cdef-abcd-efabcdefabcd/20240101120000-xyz123
\* makes the upload call with target path
\* ab/abcdefabcd-efab-cdef-abcd-efabcdefabcd/202401/01/120000.tar.gz, and the
\* report built when the call completes has that path.
C9_EndToEndAsStated ==
    (/\ pc = "done"
     /\ DefaultSetup
     /\ "s3_path" \in DOMAIN broker0
     /\ broker0["s3_path"] = LongClusterPath) =>
        /\ Len(uploads) = 1
        /\ uploads[1].target_path = LongClusterTarget
        /\ (UploadCompleted => report.path = LongClusterTarget)

\* C9, amended: the cluster_id segment of that s3_path has 38 characters, so
\* process rejects it with the pattern error and makes no upload call.  For
\* the s3_path 123/abcdefab-cdef-abcd-efab-cdefabcdefab/20240101120000-xyz123,
\* whose cluster_id has 36 characters, the default template, no prefix and a
\* broker that holds no cluster_id, year, month, day or time of its own that
\* differs from the path's, process makes the upload call with exactly
\* ab/abcdefab-cdef-abcd-efab-cdefabcdefab/202401/01/120000.tar.gz, and the
\* report it builds when the call completes has exactly that path.
C9_EndToEnd ==
    (pc = "done" /\ DefaultSetup /\ "s3_path" \in DOMAIN broker0) =>
        /\ broker0["s3_path"] = LongClusterPath =>
              result = Raised(PatternError) /\ uploads = <<>>
        /\ (broker0["s3_path"] = ExamplePath /\ NothingShadowed) =>
              /\ Len(uploads) = 1
              /\ uploads[1].target_path = ExampleTarget
              /\ uploads[1].bucket = dest_bucket
              /\ UploadCompleted =>
                    /\ report.path = ExampleTarget
                    /\ \E i \in 1..Len(events) :
                          /\ events[i].hook = "on_engine_success"
                          /\ events[i].report.path = ExampleTarget

C9_Witness ==
    /\ pc = "done"
    /\ DefaultSetup
    /\ broker0 = [s3_path |-> ExamplePath]
    /\ UploadCompleted
    /\ report.path = ExampleTarget

\* The second segment of a path: the characters between its first and its
\* second "/".
SecondSegment(s) ==
    LET slashes == {i \in 1..Len(s) : s[i] = "/"}
        first   == CHOOSE i \in slashes : \A j \in slashes : i <= j
        rest    == {i \in slashes : i > first}
        second  == CHOOSE i \in rest : \A j \in rest : i <= j
    IN  IF Cardinality(slashes) < 2 THEN <<>> ELSE SubSeq(s, first + 1, second - 1)

-----------------------------------------------------------------------------
(* Properties of the target path *)

\* The archive_name_template resolved against the layered source of the
\* current invocation.
Resolved == SafeSubstitute(archive_name_template, Components(broker0, match_.groups))

\* s occurs in w.
Contains(w, s) == \E i \in 1..(Len(w) - Len(s) + 1) : SubSeq(w, i, i + Len(s) - 1) = s

\* C11: the target path is the configured prefix, one "/" and the resolved
\* template when a prefix is configured, and the resolved template with nothing
\* before it when the prefix is None or empty.
C11_PrefixPrepended ==
    PathComputed =>
        IF archives_path_prefix = None \/ archives_path_prefix = <<>>
        THEN target_path = Resolved
        ELSE /\ Len(target_path) = Len(archives_path_prefix) + 1 + Len(Resolved)
             /\ SubSeq(target_path, 1, Len(archives_path_prefix)) = archives_path_prefix
             /\ target_path[Len(archives_path_prefix) + 1] = "/"
             /\ IsSuffix(Resolved, target_path)

C11_Witness ==
    /\ PathComputed
    /\ archives_path_prefix = <<"a","r","c","h","i","v","e","s">>
    /\ SubSeq(target_path, 1, 11) = <<"a","r","c","h","i","v","e","s","/","a","b">>

\* The placeholder of SlicingTemplate that no source holds, as written.
UnknownPlaceholder == <<"$","n","o","k","e","y","[","1",":","3","]">>

\* C12: a placeholder whose name neither the Archive Components nor the broker
\* hold stays in the target path as written, and the invocation goes on to the
\* upload call and, when that completes and the cleanup finds cluster_id,
\* returns the report; with the default template, whose placeholders are all
\* held, no "$" is left in the target path.
C12_MissingKeysKept ==
    /\ (PathComputed /\ archive_name_template = SlicingTemplate) =>
           Contains(target_path, UnknownPlaceholder)
    /\ (PathComputed /\ archive_name_template = DefaultTemplate) =>
           \A i \in 1..Len(target_path) : target_path[i] # "$"
    /\ (pc = "done" /\ match_.ok) =>
           /\ Len(uploads) = 1
           /\ uploads[1].target_path = target_path
           /\ result.kind = "raised" => result.error \in UploadErrors \cup {KeyError("cluster_id")}
           /\ (UploadCompleted /\ "cluster_id" \in DOMAIN broker0) =>
                  /\ result.kind = "returned"
                  /\ report.path = target_path

C12_Witness ==
    /\ pc = "done"
    /\ archive_name_template = SlicingTemplate
    /\ result.kind = "returned"
    /\ Contains(report.path, UnknownPlaceholder)

-----------------------------------------------------------------------------
(* Properties of the StatsWatcher *)

\* C13: the received counter equals the number of on_recv calls made, whatever
\* other hooks were called between them, and no step makes any of the three
\* counters smaller.
C13_ReceivedCounts ==
    /\ [](recv_total = hook_calls["on_recv"])
    /\ [][/\ recv_total' >= recv_total
          /\ downloaded_total' >= downloaded_total
          /\ processed_total' >= processed_total]_vars

C13_Witness ==
    /\ hook_calls["on_recv"] = MaxHookCalls
    /\ recv_total = MaxHookCalls
    /\ hook_calls["on_download"] > 0
    /\ hook_calls["on_process"] > 0

\* The counter a hook stands for, in this state and in the next.
CounterOf(hook) ==
    IF hook = "on_recv" THEN recv_total
    ELSE IF hook = "on_download" THEN downloaded_total
    ELSE processed_total

CounterOfNext(hook) ==
    IF hook = "on_recv" THEN recv_total'
    ELSE IF hook = "on_download" THEN downloaded_total'
    ELSE processed_total'

\* C14: a call of a hook adds exactly 1 to the counter of that hook and leaves
\* the other two counters as they were, whichever hooks were called before it.
C14_OwnCounterOnly ==
    [][\A h \in Hooks :
          hook_calls'[h] = hook_calls[h] + 1 =>
              /\ CounterOfNext(h) = CounterOf(h) + 1
              /\ \A g \in Hooks \ {h} : CounterOfNext(g) = CounterOf(g)]_vars

\* on_process called on a fresh StatsWatcher, before any other hook.
C14_Witness ==
    /\ sw_status = "serving"
    /\ hook_calls = [h \in Hooks |-> IF h = "on_process" THEN 1 ELSE 0]
    /\ processed_total = 1
    /\ recv_total = 0
    /\ downloaded_total = 0

\* C15: a StatsWatcher constructed with None, "8000", 8000.0, 80 or 70000 has
\* failed with a TypeError, PermissionError or OverflowError, and at that
\* failure every counter is 0, no gauge is set and no hook has run.
C15_InvalidPortFails ==
    (sw_status # "absent" /\ sw_port \in InvalidPorts) =>
        /\ sw_status = "failed"
        /\ sw_error.type \in {"TypeError", "PermissionError", "OverflowError"}
        /\ recv_total = 0
        /\ downloaded_total = 0
        /\ processed_total = 0
        /\ sw_gauges = [download |-> Unset, process |-> Unset]
        /\ hook_calls = [h \in Hooks |-> 0]

C15_Witness ==
    /\ sw_status = "failed"
    /\ sw_port = Port("int", 70000)
    /\ sw_error.type = "OverflowError"

-----------------------------------------------------------------------------
(* Properties of the order of the steps, the upload call and the broker *)

\* The notifications of on_engine_success fired by the current invocation.
SuccessEvents == {i \in 1..Len(events) : events[i].hook = "on_engine_success"}

\* C16: on_engine_success is fired only after the upload call has completed,
\* and before anything is removed from the broker: its observers get the
\* broker as process was handed it, s3_path included, and in an invocation
\* that returns the report they get both cluster_id and s3_path; the broker
\* loses a key only once on_engine_success has been fired.
C16_SuccessAfterUploadBeforeCleanup ==
    /\ \A i \in SuccessEvents :
          /\ UploadCompleted
          /\ events[i].broker = broker0
          /\ "s3_path" \in DOMAIN events[i].broker
          /\ result.kind = "returned" =>
                 {"cluster_id", "s3_path"} \subseteq DOMAIN events[i].broker
    /\ ~UploadCompleted => SuccessEvents = {}
    /\ broker # broker0 => Cardinality(SuccessEvents) = 1
    /\ result.kind = "returned" => Cardinality(SuccessEvents) = 1

C16_Witness ==
    /\ result.kind = "returned"
    /\ "cluster_id" \notin DOMAIN broker
    /\ "s3_path" \notin DOMAIN broker
    /\ \E i \in SuccessEvents :
          /\ {"cluster_id", "s3_path"} \subseteq DOMAIN events[i].broker
          /\ events[i].report = report

\* C17: an invocation makes at most one upload call, with the local_path it
\* was handed, the configured dest_bucket and the computed target path, and
\* a returned report has that target path as its path and the s3_path of the
\* broker it was handed as its original_path.
C17_OneUploadCall ==
    /\ Len(uploads) <= 1
    /\ \A i \in 1..Len(uploads) :
          /\ uploads[i].local_path = local_path
          /\ uploads[i].local_path \in LocalPaths
          /\ uploads[i].bucket = dest_bucket
          /\ uploads[i].target_path = target_path
          /\ PathComputed \/ pc = "done"
    /\ result.kind = "returned" =>
          /\ Len(uploads) = 1
          /\ report.path = uploads[1].target_path
          /\ report.original_path = broker0["s3_path"]
          /\ result.value = JsonDumps(report)

C17_Witness ==
    /\ result.kind = "returned"
    /\ Len(uploads) = 1
    /\ uploads[1].raised = NoError
    /\ uploads[1].target_path # broker0["s3_path"]
    /\ report.path = uploads[1].target_path

\* C18: the broker of an invocation never holds a key it was not handed, nor
\* another value for a key, and when the report is returned it is the broker
\* process was handed without cluster_id and s3_path.
C18_NoWriteBack ==
    /\ (DOMAIN broker) \subseteq (DOMAIN broker0)
    /\ \A k \in DOMAIN broker : broker[k] = broker0[k]
    /\ result.kind = "returned" =>
           broker = MapDel(MapDel(broker0, "cluster_id"), "s3_path")

\* A report returned for a broker that lacks the org_id and holds another
\* year than its s3_path.
C18_Witness ==
    /\ result.kind = "returned"
    /\ "org_id" \notin DOMAIN broker
    /\ "year" \in DOMAIN broker
    /\ "year" \in Contested
    /\ broker["year"] = broker0["year"]

\* The value the layered source holds for a key: the broker's, and the one of
\* the match when the broker has none.
Layered(key) ==
    IF key \in DOMAIN broker0 THEN broker0[key]
    ELSE IF key \in DOMAIN match_.groups THEN match_.groups[key]
    ELSE None

\* The last two characters of a string.
LastTwo(s) == IF Len(s) <= 2 THEN s ELSE SubSeq(s, Len(s) - 1, Len(s))

\* C20: in every report built, metadata.cluster_id is the cluster_id of the
\* layered source and metadata.external_organization its org_id, and they are
\* the values the target path was resolved with: the default template put that
\* cluster_id into the path, the slicing template the end of that org_id.
C20_MetadataFromLayeredSource ==
    report # NoReport =>
        /\ report.metadata.cluster_id = Layered("cluster_id")
        /\ report.metadata.external_organization = Layered("org_id")
        /\ archive_name_template = DefaultTemplate =>
               Contains(report.path,
                        SubSeq(report.metadata.cluster_id, 1, 2) \o <<"/">>
                        \o report.metadata.cluster_id \o <<"/">>)
        /\ archive_name_template = SlicingTemplate =>
               Contains(report.path,
                        <<"x", "/">> \o LastTwo(report.metadata.external_organization)
                        \o <<"/">>)

C20_Witness ==
    /\ result.kind = "returned"
    /\ {"cluster_id", "org_id"} \subseteq Contested
    /\ report.metadata.cluster_id = broker0["cluster_id"]
    /\ report.metadata.external_organization = broker0["org_id"]

====
